---- MODULE Spec2Model ----
(***************************************************************************)
(* The Xiaomi air-condition M1 climate entity (src/ac_m1.py).              *)
(*                                                                         *)
(* State: the cached fields of XiaomiAirConditionM1.  One action per       *)
(* host-facing coroutine.  The device is not owned by the repository: its  *)
(* answer to every request is an input of the action (an 'ok' answer, any  *)
(* other answer, or a DeviceException raised by Device.send).              *)
(*                                                                         *)
(* Python values: None, True and False of fields that may hold None are    *)
(* the strings "None", "True", "False"; a temperature is None (<<>>) or a  *)
(* float with one decimal, <<whole degrees, tenths digit>>; an enum member *)
(* stored in a field is the string "OperationMode.<Name>", which is equal  *)
(* to no plain string, as in Python.                                       *)
(*                                                                         *)
(* call and ncalls are history: call describes the last invocation (the    *)
(* coroutine, its arguments, the requests it sent with the device's        *)
(* answers, the exception that escaped it), ncalls counts invocations.     *)
(***************************************************************************)
EXTENDS Integers, Sequences, FiniteSets, TLC

VARIABLES _available, _state, _state_attrs, _aux_heat, _current_temperature,
          _swing_mode, _wind_level, _hvac_mode, _target_temperature,
          _last_on_operation, _fan_mode, call, ncalls

vars == <<_available, _state, _state_attrs, _aux_heat, _current_temperature,
          _swing_mode, _wind_level, _hvac_mode, _target_temperature,
          _last_on_operation, _fan_mode, call, ncalls>>

\* ---------------------------------------------------------------- bounds

\* The host's calls that a run follows.
MaxCalls == 3

\* ------------------------------------------------------------- constants

None == "None"
PyTrue == "True"
PyFalse == "False"
NoTemp == <<>>
Unset == "<unset>"

HVAC_MODE_OFF == "off"
HVAC_MODE_HEAT == "heat"
HVAC_MODE_COOL == "cool"
HVAC_MODE_AUTO == "auto"
HVAC_MODE_DRY == "dry"
HVAC_MODE_FAN_ONLY == "fan_only"

\* SUCCESS = ['ok']; the other two outcomes of Device.send.
SUCCESS == "ok"
OtherAnswer == "error"
DeviceException == "DeviceException"
Answers == {SUCCESS, OtherAnswer, DeviceException}

\* class HVACMode: member name -> value
HVACMode == [Off |-> HVAC_MODE_OFF, Cool |-> HVAC_MODE_COOL, Dry |-> HVAC_MODE_DRY,
             Fan_Only |-> HVAC_MODE_FAN_ONLY, Heat |-> HVAC_MODE_HEAT]

\* class OperationMode: member name -> value
OperationMode == [Cool |-> "cooling", Dry |-> "arefaction", Fan_Only |-> "wind",
                  Heat |-> HVAC_MODE_HEAT]

\* class FanSpeed: member name -> value
FanSpeed == [Level_1 |-> 0, Level_2 |-> 1, Level_3 |-> 2, Level_4 |-> 3,
             Level_5 |-> 4, Auto |-> 5]

\* class SwingMode: member name -> value
SwingMode == [On |-> "on", Off |-> "off"]

\* Enum(value): the names of the members with that value (empty: ValueError).
ByValue(enum, v) == {n \in DOMAIN enum : enum[n] = v}
NameOf(enum, v) == CHOOSE n \in DOMAIN enum : enum[n] = v

\* str.title() on the strings the host passes.
title(s) ==
  CASE s = "off" -> "Off"           [] s = "on" -> "On"
    [] s = "cool" -> "Cool"         [] s = "dry" -> "Dry"
    [] s = "heat" -> "Heat"         [] s = "fan_only" -> "Fan_Only"
    [] s = "auto" -> "Auto"         [] s = "level_1" -> "Level_1"
    [] s = "Auto" -> "Auto"         [] s = "Level_1" -> "Level_1"
    [] s = "Level_5" -> "Level_5"   [] s = "On" -> "On"
    [] s = "Off" -> "Off"           [] s = "high" -> "High"
    [] OTHER -> s

\* str.lower() on the member names of OperationMode.
lower(s) ==
  CASE s = "Cool" -> "cool"  [] s = "Dry" -> "dry"
    [] s = "Fan_Only" -> "fan_only"  [] s = "Heat" -> "heat"
    [] OTHER -> s

\* An OperationMode member held in a field.
Member(n) ==
  CASE n = "Cool" -> "OperationMode.Cool"  [] n = "Dry" -> "OperationMode.Dry"
    [] n = "Fan_Only" -> "OperationMode.Fan_Only"  [] n = "Heat" -> "OperationMode.Heat"

\* ------------------------------------------------- AirConditionStatus

\* The values the device may report for the properties the entity reads
\* ('silence' and 'comfort' are requested and never read).  "auto" is no
\* OperationMode value and 6 is no FanSpeed value ('0~7' in status' docstring).
DeviceTemps == {220, 255}
StatusData == [power : {"on", "off"},
               mode : {"cooling", "arefaction", "wind", "heat", "auto"},
               st_temp_dec : DeviceTemps,
               temp_dec : {200},
               vertical_swing : {"on"},
               speed_level : {0, 6},
               ptc : {"on"}]

\* x / 10 of a non-negative integer number of tenths, as a one-decimal float.
Div10(x) == <<x \div 10, x % 10>>

power(data) == data.power
is_on(data) == power(data) = "on"
target_temp(data) == Div10(data.st_temp_dec)
temperature(data) == Div10(data.temp_dec)
swing(data) == data.vertical_swing
wind_level(data) == data.speed_level
is_aux_heat(data) == IF data.ptc = "on" THEN PyTrue ELSE PyFalse

\* ----------------------------------------------------- AirConditionM1

\* The outcome of a library call: the requests it sent with the device's
\* answers, the value it returned, the exception it raised (None: none).
Outcome(sent, value, exc) == [sent |-> sent, value |-> value, exc |-> exc]

\* Device.send(method, params) with the device's answer.
send(method, params, answer) ==
  Outcome(<<[method |-> method, params |-> params, answer |-> answer]>>,
          IF answer = DeviceException THEN None ELSE answer,
          IF answer = DeviceException THEN DeviceException ELSE None)

properties == <<"power", "mode", "st_temp_dec", "temp_dec", "vertical_swing",
                "speed_level", "ptc", "silence", "comfort">>

\* One get_prop request per property.  nfail = 0: every request is answered
\* with one value; nfail = k > 0: the k-th request raises DeviceException.
PropValue == "value"
status(nfail, data) ==
  LET n == IF nfail = 0 THEN Len(properties) ELSE nfail
      sent == [i \in 1..n |->
                 [method |-> "get_prop", params |-> <<properties[i]>>,
                  answer |-> IF i = nfail THEN DeviceException ELSE PropValue]]
  IN IF nfail = 0 THEN Outcome(sent, data, None)
                  ELSE Outcome(sent, None, DeviceException)

on(answer) == send("set_power", <<"on">>, answer)
\* Mutant: off sends the power-on request.
off_sends_on(answer) == send("set_power", <<"on">>, answer)

off(answer) == send("set_power", <<"off">>, answer)

\* int(temperature * 10) of a one-decimal float; None * 10 is a TypeError.
set_temperature(temp, answer) ==
  IF temp = NoTemp THEN Outcome(<<>>, None, "TypeError")
  ELSE send("set_temperature", <<temp[1] * 10 + temp[2]>>, answer)

\* Mutant: the preset names resolve and the last branch runs.
set_preset_mode_both_off(presetmode, answer) ==
  LET r1 == send("set_comfort", <<"off">>, answer)
      r2 == send("set_silence", <<"off">>, answer)
  IN IF r1.exc # None THEN Outcome(r1.sent, None, r1.exc)
     ELSE Outcome(r1.sent \o r2.sent, None, r2.exc)

\* PRESET_COMFORT and PRESET_SLEEP are names the module neither defines nor
\* imports: the first comparison raises NameError and nothing is sent.
set_preset_mode(presetmode, answer) == Outcome(<<>>, None, "NameError")

\* Both return None whatever the device answers.
turn_aux_heat_on(answer) ==
  LET r == send("set_ptc", <<"on">>, answer) IN Outcome(r.sent, None, r.exc)
turn_aux_heat_off(answer) ==
  LET r == send("set_ptc", <<"off">>, answer) IN Outcome(r.sent, None, r.exc)

\* AirConditionException is not a name of the module either.
set_wind_level(level, answer) ==
  IF level < 0 \/ level > 7 THEN Outcome(<<>>, None, "NameError")
  ELSE send("set_spd_level", <<level>>, answer)

set_swing(swingOn, answer) ==
  IF swingOn THEN send("set_vertical", <<"on">>, answer)
  ELSE send("set_vertical", <<"off">>, answer)

\* mode: a member name of OperationMode; mode.value is sent.
set_mode(mode, answer) == send("set_mode", <<OperationMode[mode]>>, answer)

\* ----------------------------------------------- XiaomiAirConditionM1

\* The entity's cached fields, as one record (Python's self).
Self == [_available |-> _available, _state |-> _state, _state_attrs |-> _state_attrs,
         _aux_heat |-> _aux_heat, _current_temperature |-> _current_temperature,
         _swing_mode |-> _swing_mode, _wind_level |-> _wind_level,
         _hvac_mode |-> _hvac_mode, _target_temperature |-> _target_temperature,
         _last_on_operation |-> _last_on_operation, _fan_mode |-> _fan_mode]

\* __init__; _last_on_operation and _fan_mode are not assigned there.
init__ == [_available |-> FALSE, _state |-> None,
           _state_attrs |-> [temperature |-> NoTemp, swing_mode |-> None,
                             hvac_mode |-> None],
           _aux_heat |-> None, _current_temperature |-> NoTemp,
           _swing_mode |-> None, _wind_level |-> None, _hvac_mode |-> None,
           _target_temperature |-> NoTemp,
           _last_on_operation |-> Unset, _fan_mode |-> Unset]

\* dict.update
update(d, u) ==
  [k \in DOMAIN d \cup DOMAIN u |-> IF k \in DOMAIN u THEN u[k] ELSE d[k]]

\* What a coroutine leaves behind: the fields, the requests sent in order,
\* the exception that escaped it (None: it returned).
Done(self, log, raised) == [self |-> self, log |-> log, raised |-> raised]

\* Mutant: any answer of the device counts as success.
try_command_any_answer(self, r) ==
  IF r.exc = DeviceException
  THEN [self |-> [self EXCEPT !._available = FALSE], result |-> FALSE, exc |-> None]
  ELSE IF r.exc # None
  THEN [self |-> self, result |-> FALSE, exc |-> r.exc]
  ELSE [self |-> self, result |-> r.value # None, exc |-> None]

\* Mutant: a DeviceException does not clear _available.
try_command_keeps_available(self, r) ==
  IF r.exc = DeviceException
  THEN [self |-> self, result |-> FALSE, exc |-> None]
  ELSE IF r.exc # None
  THEN [self |-> self, result |-> FALSE, exc |-> r.exc]
  ELSE [self |-> self, result |-> r.value = SUCCESS, exc |-> None]

\* _try_command around the outcome r of the library call: the fields after
\* it, the value it returns, the exception it lets through.
try_command(self, r) ==
  IF r.exc = DeviceException
  THEN [self |-> [self EXCEPT !._available = FALSE], result |-> FALSE, exc |-> None]
  ELSE IF r.exc # None
  THEN [self |-> self, result |-> FALSE, exc |-> r.exc]
  ELSE [self |-> self, result |-> r.value = SUCCESS, exc |-> None]

async_turn_on(self, answer) ==
  LET r == on(answer)
      t == try_command(self, r)
  IN Done(IF t.result THEN [t.self EXCEPT !._state = PyTrue] ELSE t.self,
          r.sent, t.exc)

async_turn_off(self, answer) ==
  LET r == off(answer)
      t == try_command(self, r)
  IN Done(IF t.result THEN [t.self EXCEPT !._state = PyFalse] ELSE t.self,
          r.sent, t.exc)

async_update(self, nfail, data) ==
  LET r == status(nfail, data) IN
  IF r.exc = DeviceException
  THEN Done([self EXCEPT !._available = FALSE], r.sent, None)
  ELSE
  LET state == r.value
      s1 == [self EXCEPT !._available = TRUE]
  IN IF ByValue(OperationMode, state.mode) = {} THEN Done(s1, r.sent, "ValueError")
  ELSE
  LET mode == NameOf(OperationMode, state.mode)
      s2 == [s1 EXCEPT !._last_on_operation = HVACMode[mode]]
      s3 == IF power(state) = "off"
            THEN [s2 EXCEPT !._hvac_mode = HVAC_MODE_OFF, !._state = PyFalse]
            ELSE [s2 EXCEPT !._hvac_mode = s2._last_on_operation, !._state = PyTrue]
      s4 == [s3 EXCEPT !._target_temperature = target_temp(state),
                       !._current_temperature = temperature(state)]
  IN IF ByValue(FanSpeed, wind_level(state)) = {} THEN Done(s4, r.sent, "ValueError")
  ELSE
  LET s5 == [s4 EXCEPT !._fan_mode = NameOf(FanSpeed, wind_level(state)),
                       !._aux_heat = is_aux_heat(state)]
  IN IF ByValue(SwingMode, swing(state)) = {} THEN Done(s5, r.sent, "ValueError")
  ELSE
  LET s6 == [s5 EXCEPT !._swing_mode = NameOf(SwingMode, swing(state))]
      s7 == [s6 EXCEPT !._state_attrs = update(s6._state_attrs,
               [temperature |-> target_temp(state),
                swing_mode |-> swing(state),
                fan_mode |-> wind_level(state),
                hvac_mode |-> IF s6._state = PyTrue THEN lower(mode) ELSE "off"])]
  IN Done(s7, r.sent, None)

\* Mutant: fan_only is not refused.
temperature_refused_only_off(self) == self._hvac_mode = HVAC_MODE_OFF

\* The guard of async_set_temperature's early return.
temperature_refused(self) ==
  self._hvac_mode = HVAC_MODE_OFF \/ self._hvac_mode = HVAC_MODE_FAN_ONLY

\* kwargs: temp is kwargs.get(ATTR_TEMPERATURE), mode kwargs.get(ATTR_HVAC_MODE).
async_set_temperature(self, temp, mode, answer) ==
  IF temperature_refused(self) THEN Done(self, <<>>, None)
  ELSE
  LET s1 == IF temp # NoTemp THEN [self EXCEPT !._target_temperature = temp] ELSE self
  IN IF mode # None /\ ByValue(OperationMode, mode) = {} THEN Done(s1, <<>>, "ValueError")
  ELSE
  LET s2 == IF mode # None
            THEN [s1 EXCEPT !._hvac_mode = Member(NameOf(OperationMode, mode))]
            ELSE s1
      r == set_temperature(s2._target_temperature, answer)
      t == try_command(s2, r)
  IN Done(t.self, r.sent, t.exc)

async_set_preset_mode(self, preset_mode, answer) ==
  LET r == set_preset_mode(preset_mode, answer)
      t == try_command(self, r)
  IN Done(t.self, r.sent, t.exc)

async_turn_aux_heat_on(self, answer) ==
  LET r == turn_aux_heat_on(answer)
      t == try_command(self, r)
  IN Done(t.self, r.sent, t.exc)

async_turn_aux_heat_off(self, answer) ==
  LET r == turn_aux_heat_off(answer)
      t == try_command(self, r)
  IN Done(t.self, r.sent, t.exc)

\* SUPPORT_FLAGS holds SUPPORT_SWING_MODE and SUPPORT_FAN_MODE.
supports_swing_mode == TRUE
supports_fan_mode == TRUE

async_set_swing_mode(self, swing_mode, answer) ==
  IF ~supports_swing_mode THEN Done(self, <<>>, None)
  ELSE IF title(swing_mode) \notin DOMAIN SwingMode THEN Done(self, <<>>, "KeyError")
  ELSE
  LET s1 == [self EXCEPT !._swing_mode = title(swing_mode)]
      r == set_swing(s1._swing_mode = "On", answer)
      t == try_command(s1, r)
  IN Done(t.self, r.sent, t.exc)

\* Mutant: the wrong mode is refused.
fan_mode_refused_in_fan_only(self) == self._hvac_mode = HVAC_MODE_FAN_ONLY

\* The guard of async_set_fan_mode's second early return.
fan_mode_refused(self) == self._hvac_mode = HVAC_MODE_DRY

async_set_fan_mode(self, fan_mode, answer) ==
  IF ~supports_fan_mode THEN Done(self, <<>>, None)
  ELSE IF fan_mode_refused(self) THEN Done(self, <<>>, None)
  ELSE IF title(fan_mode) \notin DOMAIN FanSpeed THEN Done(self, <<>>, "KeyError")
  ELSE
  LET s1 == [self EXCEPT !._fan_mode = title(fan_mode)]
      fan_mode_value == FanSpeed[title(fan_mode)]
      r == set_wind_level(fan_mode_value, answer)
      t == try_command(s1, r)
  IN Done(t.self, r.sent, t.exc)

\* The guard of async_set_hvac_mode's power-on step.
needs_power_on(self) == self._hvac_mode = HVAC_MODE_OFF

\* a1 answers the first request of the call, a2 the second (if any).  The
\* final self.async_update() only creates a coroutine object that is never
\* run: it sends nothing and changes nothing.
async_set_hvac_mode(self, hvac_mode, a1, a2) ==
  IF hvac_mode = HVAC_MODE_OFF
  THEN LET r == off(a1)
           t == try_command(self, r)
       IN Done(IF t.result
               THEN [t.self EXCEPT !._state = PyFalse, !._hvac_mode = HVAC_MODE_OFF]
               ELSE t.self, r.sent, t.exc)
  ELSE
  LET p == needs_power_on(self)
      r1 == IF p THEN on(a1) ELSE Outcome(<<>>, None, None)
      t1 == IF p THEN try_command(self, r1)
                 ELSE [self |-> self, result |-> TRUE, exc |-> None]
  IN IF p /\ ~t1.result THEN Done(t1.self, r1.sent, t1.exc)
  ELSE IF ByValue(HVACMode, hvac_mode) = {} THEN Done(t1.self, r1.sent, "ValueError")
  ELSE
  LET s2 == [t1.self EXCEPT !._hvac_mode = HVACMode[NameOf(HVACMode, hvac_mode)],
                            !._state = PyTrue]
      r2 == set_mode(title(s2._hvac_mode), IF p THEN a2 ELSE a1)
      t2 == try_command(s2, r2)
  IN Done(t2.self, r1.sent \o r2.sent, t2.exc)

\* ------------------------------------------------------ the state machine

\* What the host may pass.
HostTemps == {NoTemp} \cup {Div10(t) : t \in DeviceTemps}
HostHvacModes == {HVAC_MODE_OFF, HVAC_MODE_HEAT, HVAC_MODE_COOL, HVAC_MODE_AUTO,
                  HVAC_MODE_DRY, HVAC_MODE_FAN_ONLY}
HostFanModes == {"Level_1", "auto", "high"}
HostSwingModes == {"on", "Off"}
HostPresetModes == {"none", "silence", "comfort"}

Init ==
  /\ _available = init__._available
  /\ _state = init__._state
  /\ _state_attrs = init__._state_attrs
  /\ _aux_heat = init__._aux_heat
  /\ _current_temperature = init__._current_temperature
  /\ _swing_mode = init__._swing_mode
  /\ _wind_level = init__._wind_level
  /\ _hvac_mode = init__._hvac_mode
  /\ _target_temperature = init__._target_temperature
  /\ _last_on_operation = init__._last_on_operation
  /\ _fan_mode = init__._fan_mode
  /\ call = [op |-> "__init__", arg |-> <<>>, log |-> <<>>, raised |-> None]
  /\ ncalls = 0

\* One invocation of coroutine op with arguments arg that ends as d: the
\* fields take d.self, and call records the invocation (the requests it
\* sent, in order, and the exception that escaped it).
Invoke(op, arg, d) ==
  /\ ncalls < MaxCalls
  /\ ncalls' = ncalls + 1
  /\ _available' = d.self._available
  /\ _state' = d.self._state
  /\ _state_attrs' = d.self._state_attrs
  /\ _aux_heat' = d.self._aux_heat
  /\ _current_temperature' = d.self._current_temperature
  /\ _swing_mode' = d.self._swing_mode
  /\ _wind_level' = d.self._wind_level
  /\ _hvac_mode' = d.self._hvac_mode
  /\ _target_temperature' = d.self._target_temperature
  /\ _last_on_operation' = d.self._last_on_operation
  /\ _fan_mode' = d.self._fan_mode
  /\ call' = [op |-> op, arg |-> arg, log |-> d.log, raised |-> d.raised]

\* The device's report is read only when no request fails.
Update ==
  \/ \E data \in StatusData :
       Invoke("async_update", <<>>, async_update(Self, 0, data))
  \/ \E nfail \in 1..Len(properties) :
       Invoke("async_update", <<>>,
              async_update(Self, nfail, CHOOSE data \in StatusData : TRUE))

TurnOn == \E a \in Answers : Invoke("async_turn_on", <<>>, async_turn_on(Self, a))

TurnOff == \E a \in Answers : Invoke("async_turn_off", <<>>, async_turn_off(Self, a))

SetTemperature ==
  \E temp \in HostTemps, mode \in {None, HVAC_MODE_HEAT, HVAC_MODE_COOL}, a \in Answers :
    Invoke("async_set_temperature", <<temp, mode>>,
           async_set_temperature(Self, temp, mode, a))

SetPresetMode ==
  \E m \in HostPresetModes :
    Invoke("async_set_preset_mode", <<m>>, async_set_preset_mode(Self, m, SUCCESS))

TurnAuxHeatOn ==
  \E a \in Answers :
    Invoke("async_turn_aux_heat_on", <<>>, async_turn_aux_heat_on(Self, a))

TurnAuxHeatOff ==
  \E a \in Answers :
    Invoke("async_turn_aux_heat_off", <<>>, async_turn_aux_heat_off(Self, a))

SetSwingMode ==
  \E m \in HostSwingModes, a \in Answers :
    Invoke("async_set_swing_mode", <<m>>, async_set_swing_mode(Self, m, a))

SetFanMode ==
  \E m \in HostFanModes, a \in Answers :
    Invoke("async_set_fan_mode", <<m>>, async_set_fan_mode(Self, m, a))

\* A second answer is drawn only when the call may send a second request.
SetHvacMode ==
  \E m \in HostHvacModes, a1 \in Answers :
    \E a2 \in IF needs_power_on(Self) /\ m # HVAC_MODE_OFF /\ a1 = SUCCESS
               THEN Answers ELSE {SUCCESS} :
    Invoke("async_set_hvac_mode", <<m>>, async_set_hvac_mode(Self, m, a1, a2))

Next ==
  \/ Update
  \/ TurnOn
  \/ TurnOff
  \/ SetTemperature
  \/ SetPresetMode
  \/ TurnAuxHeatOn
  \/ TurnAuxHeatOff
  \/ SetSwingMode
  \/ SetFanMode
  \/ SetHvacMode

Spec == Init /\ [][Next]_vars

\* ------------------------------------------------------------- claims

\* The requests of a log, by method.
Sends(log, method) == \E i \in DOMAIN log : log[i].method = method
Raises(log) == \E i \in DOMAIN log : log[i].answer = DeviceException
IsPower(e, onoff) == e.method = "set_power" /\ e.params = <<onoff>>

\* In a step of Next, call' describes the invocation the step is, and the
\* unprimed fields are the entity's fields when it was invoked.
Calls(op) == call'.op = op

\* C1: in every async_set_hvac_mode(m), m # off, that sends set_mode while the
\* unit was last known to be off (cached hvac_mode off, or _state False after
\* async_turn_off), a set_power "on" answered ok was sent earlier in the call.
C1_PowerOnBeforeSetMode ==
  [][(/\ Calls("async_set_hvac_mode")
      /\ call'.arg[1] # HVAC_MODE_OFF
      /\ Sends(call'.log, "set_mode")
      /\ (_hvac_mode = HVAC_MODE_OFF \/ _state = PyFalse))
     => \E i, j \in DOMAIN call'.log :
          /\ i < j
          /\ IsPower(call'.log[i], "on") /\ call'.log[i].answer = SUCCESS
          /\ call'.log[j].method = "set_mode"]_vars

\* C2: while the cached hvac_mode is dry, async_set_fan_mode(f), for any f,
\* sends nothing and leaves every cached field as it was.
C2_FanModeRefusedInDry ==
  [][(Calls("async_set_fan_mode") /\ _hvac_mode = HVAC_MODE_DRY)
     => (call'.log = <<>> /\ call'.raised = None /\ Self' = Self)]_vars

C2_Witness ==
  /\ call.op = "async_set_fan_mode"
  /\ _hvac_mode = HVAC_MODE_DRY
  /\ call.log = <<>>
  /\ title(call.arg[1]) \in DOMAIN FanSpeed
  /\ title(call.arg[1]) # _fan_mode

\* C3 as stated: every host-facing operation sends at most one request per
\* invocation.
C3_SingleRequest == Len(call.log) <= 1

\* C3 as amended: at most one request per invocation, except async_update
\* (one get_prop per property, up to the first that raises) and
\* async_set_hvac_mode (set_power "on" answered ok, then set_mode);
\* async_set_preset_mode sends none.
C3_RequestsPerCall ==
  /\ call.op = "async_update" =>
       /\ Len(call.log) \in 1..Len(properties)
       /\ \A i \in DOMAIN call.log :
            /\ call.log[i].method = "get_prop"
            /\ call.log[i].params = <<properties[i]>>
            /\ (call.log[i].answer = DeviceException => i = Len(call.log))
       /\ (Len(call.log) < Len(properties) => Raises(call.log))
  /\ call.op = "async_set_hvac_mode" =>
       /\ Len(call.log) <= 2
       /\ Len(call.log) = 2 =>
            /\ call.arg[1] # HVAC_MODE_OFF
            /\ IsPower(call.log[1], "on") /\ call.log[1].answer = SUCCESS
            /\ call.log[2].method = "set_mode"
  /\ call.op = "async_set_preset_mode" => call.log = <<>>
  /\ call.op \notin {"async_update", "async_set_hvac_mode"} => Len(call.log) <= 1

C3_Witness ==
  /\ call.op = "async_set_hvac_mode"
  /\ Len(call.log) = 2

\* C4: async_set_hvac_mode(m), m # off, called with cached hvac_mode off: if
\* the power-on command is not answered ok (another answer, or
\* DeviceException), no set_mode is sent and hvac_mode and _state are kept.
C4_PowerOnFailureStops ==
  [][(/\ Calls("async_set_hvac_mode")
      /\ call'.arg[1] # HVAC_MODE_OFF
      /\ _hvac_mode = HVAC_MODE_OFF
      /\ call'.log # <<>>
      /\ IsPower(call'.log[1], "on")
      /\ call'.log[1].answer # SUCCESS)
     => /\ ~Sends(call'.log, "set_mode")
        /\ _hvac_mode' = _hvac_mode
        /\ _state' = _state]_vars

C4_Witness ==
  /\ call.op = "async_set_hvac_mode"
  /\ call.arg[1] \in {HVAC_MODE_HEAT, HVAC_MODE_COOL, HVAC_MODE_DRY, HVAC_MODE_FAN_ONLY}
  /\ Len(call.log) = 1
  /\ IsPower(call.log[1], "on")
  /\ call.log[1].answer = OtherAnswer
  /\ _hvac_mode = HVAC_MODE_OFF
  /\ _state = PyFalse

C6_HvacModeOff ==
  [][(Calls("async_set_hvac_mode") /\ call'.arg[1] = HVAC_MODE_OFF)
     => /\ Len(call'.log) = 1
        /\ IsPower(call'.log[1], "off")
        /\ call'.log[1].answer = SUCCESS =>
             (_hvac_mode' = HVAC_MODE_OFF /\ _state' = PyFalse)
        /\ call'.log[1].answer # SUCCESS =>
             (_hvac_mode' = _hvac_mode /\ _state' = _state)]_vars

C6_Witness ==
  /\ call.op = "async_set_hvac_mode"
  /\ call.arg[1] = HVAC_MODE_OFF
  /\ Len(call.log) = 1
  /\ call.log[1].answer = DeviceException
  /\ _hvac_mode = HVAC_MODE_COOL
  /\ _state = PyTrue

\* C7: while the cached hvac_mode is off or fan_only, async_set_temperature,
\* whatever its arguments, sends nothing and leaves the target temperature
\* and hvac_mode as they were.
C7_TemperatureRefused ==
  [][(/\ Calls("async_set_temperature")
      /\ _hvac_mode \in {HVAC_MODE_OFF, HVAC_MODE_FAN_ONLY})
     => /\ call'.log = <<>>
        /\ _target_temperature' = _target_temperature
        /\ _hvac_mode' = _hvac_mode]_vars

C7_Witness ==
  /\ call.op = "async_set_temperature"
  /\ _hvac_mode = HVAC_MODE_FAN_ONLY
  /\ call.log = <<>>
  /\ call.arg[1] # NoTemp
  /\ call.arg[1] # _target_temperature
  /\ call.arg[2] = HVAC_MODE_HEAT

====
